---- MODULE Spec2Model ----
(***************************************************************************)
(* Archiving of shared pointers (rc::Rc / rc::Weak and sync::Arc /         *)
(* sync::Weak) in rkyv: src/rkyv/src/std_impl/shared/mod.rs.               *)
(*                                                                         *)
(* One behaviour is one archiving operation followed by one                *)
(* deserialization of the finished archive:                                *)
(*   phase "ser"      pointer fields are serialized (pointees written,     *)
(*                    resolvers returned) and resolved (archived pointers  *)
(*                    written); strong handles of the source graph may be  *)
(*                    dropped in between;                                  *)
(*   phase "de"       the archive, copied to another base address, is read   *)
(*                    back with one deserializer; the caller drops and     *)
(*                    upgrades the handles it got;                         *)
(*   phase "closed"   the deserializer (and its registry) was dropped;     *)
(*   phase "panicked" a resolve unwound.                                   *)
(*                                                                         *)
(* Pointee 1 is shared through rc pointers, pointee 2 through sync         *)
(* pointers; NullId is the target of a weak pointer made by Weak::new().   *)
(***************************************************************************)
EXTENDS Integers, Sequences, FiniteSets, Bags, TLC

\* ---- bounds of the model -------------------------------------------------
MaxFields == 2       \* pointer fields serialized in one archiving operation
MaxHandles == 2      \* handles the caller holds at one time while reading back
BaseShift == 16      \* the other base address the archive may be copied to

\* ---- layout of the archived types ---------------------------------------
PointeeSize == 4     \* the archived pointee (a 32 bit integer)
RcSize == 4          \* ArchivedRc / ArchivedArc: one RelPtr
WeakSize == 8        \* ArchivedRcWeak / ArchivedArcWeak: tag, padding, RelPtr
PayloadOffset == 4   \* offset_of!(Archived..WeakVariantSome, 1)

NullId == 0
Ids == {1, 2}
Bases == {0, BaseShift}

Flavor(id) == IF id = 2 THEN "arc" ELSE "rc"
SrcVal(id) == 40 + id

VARIABLES
    phase,             \* "ser", "de", "closed" or "panicked"
    srcLive,           \* srcLive[id]: the source pointee still has a strong handle
    shared_resolvers,  \* the serializer's registry: pointee identity -> position
    buf,               \* the archive being written: a set of cells
    pos,               \* the serializer's write position
    pending,           \* fields serialized and not yet resolved
    archive,           \* the finished archive at its base address
    shared_pointers,   \* the deserializer's registry: archived address -> allocation
    allocs,            \* the reconstructed allocations
    handles,           \* the handles returned to the caller
    orphaned,          \* allocations whose weak handle died before any strong one existed
    last               \* what the most recent operation did and returned

vars == <<phase, srcLive, shared_resolvers, buf, pos, pending, archive,
          shared_pointers, allocs, handles, orphaned, last>>

serVars == <<shared_resolvers, buf, pos, pending>>
deVars == <<archive, shared_pointers, allocs, handles, orphaned>>

Empty == [x \in {} |-> 0]

Cell(at, t, off, id, val, serLive) ==
    [at |-> at, t |-> t, off |-> off, id |-> id, val |-> val, serLive |-> serLive]

NoLast ==
    [op |-> "none", id |-> NullId, live |-> FALSE, some |-> FALSE, pos |-> 0,
     first |-> FALSE, wrote |-> FALSE, regSame |-> TRUE, ok |-> TRUE,
     key |-> 0, same |-> TRUE, h |-> 0, failed |-> FALSE, retry |-> FALSE]

\* ---- the serializer ------------------------------------------------------

Ser(reg, b, p) == [reg |-> reg, buf |-> b, pos |-> p]

\* SharedSerializer::serialize_shared: the position of the pointee's identity,
\* archiving the pointee on the first sighting.
SerializeShared(s, id) ==
    IF id \in DOMAIN s.reg
    THEN [s |-> s, pos |-> s.reg[id]]
    ELSE [s |-> Ser(s.reg @@ (id :> s.pos),
                    s.buf \cup {Cell(s.pos, "pointee", 0, id, SrcVal(id), TRUE)},
                    s.pos + PointeeSize),
          pos |-> s.pos]

\* A serialize that archives the pointee without asking the registry.
RcSerialize_NoDedup(s, id) ==
    [s |-> Ser(s.reg,
               s.buf \cup {Cell(s.pos, "pointee", 0, id, SrcVal(id), TRUE)},
               s.pos + PointeeSize),
     resolver |-> [some |-> TRUE, pos |-> s.pos]]

\* Serialize for rc::Rc<T>
RcSerialize(s, id) ==
    LET r == SerializeShared(s, id)
    IN  [s |-> r.s, resolver |-> [some |-> TRUE, pos |-> r.pos]]

\* Serialize for sync::Arc<T>
ArcSerialize(s, id) ==
    LET r == SerializeShared(s, id)
    IN  [s |-> r.s, resolver |-> [some |-> TRUE, pos |-> r.pos]]

\* A weak serialize that never looks at the result of upgrade().
RcWeakSerialize_NoUpgradeCheck(s, id, live) ==
    LET r == RcSerialize(s, id)
    IN  [s |-> r.s, resolver |-> [some |-> TRUE, pos |-> r.resolver.pos]]

\* Serialize for rc::Weak<T>; live is the outcome of self.upgrade()
RcWeakSerialize(s, id, live) ==
    IF ~live
    THEN [s |-> s, resolver |-> [some |-> FALSE, pos |-> 0]]
    ELSE LET r == RcSerialize(s, id)
         IN  [s |-> r.s, resolver |-> [some |-> TRUE, pos |-> r.resolver.pos]]

\* Serialize for sync::Weak<T>
ArcWeakSerialize(s, id, live) ==
    IF ~live
    THEN [s |-> s, resolver |-> [some |-> FALSE, pos |-> 0]]
    ELSE LET r == ArcSerialize(s, id)
         IN  [s |-> r.s, resolver |-> [some |-> TRUE, pos |-> r.resolver.pos]]

\* resolve_unsized / RelPtr: the slot at address out holds the offset from
\* the position `from` it was told it has to the position `to` of its target.
ResolveUnsized(b, from, to, out, id) ==
    b \cup {Cell(out, "rc", to - from, id, 0, TRUE)}

\* Archive for rc::Rc<T>::resolve
RcResolve(b, p, resolver, out, id) ==
    ResolveUnsized(b, p, resolver.pos, out, id)

\* Archive for sync::Arc<T>::resolve
ArcResolve(b, p, resolver, out, id) ==
    ResolveUnsized(b, p, resolver.pos, out, id)

\* A weak resolve that hands the payload the position of the whole enum.
RcWeakResolve_EnumPos(b, p, resolver, out, id, live, serLive) ==
    IF ~resolver.some
    THEN [buf |-> b \cup {Cell(out, "tagNone", 0, id, 0, serLive)}, ok |-> TRUE]
    ELSE LET b1 == b \cup {Cell(out, "tagSome", 0, id, 0, serLive)}
         IN  IF ~live
             THEN [buf |-> b1, ok |-> FALSE]
             ELSE [buf |-> RcResolve(b1, p, resolver, out + PayloadOffset, id),
                   ok |-> TRUE]

\* Archive for rc::Weak<T>::resolve; live is the outcome of self.upgrade(),
\* ok = FALSE is the panic of unwrap() on None.
RcWeakResolve(b, p, resolver, out, id, live, serLive) ==
    IF ~resolver.some
    THEN [buf |-> b \cup {Cell(out, "tagNone", 0, id, 0, serLive)}, ok |-> TRUE]
    ELSE LET b1 == b \cup {Cell(out, "tagSome", 0, id, 0, serLive)}
         IN  IF ~live
             THEN [buf |-> b1, ok |-> FALSE]
             ELSE [buf |-> RcResolve(b1, p + PayloadOffset, resolver,
                                     out + PayloadOffset, id),
                   ok |-> TRUE]

\* Archive for sync::Weak<T>::resolve
ArcWeakResolve(b, p, resolver, out, id, live, serLive) ==
    IF ~resolver.some
    THEN [buf |-> b \cup {Cell(out, "tagNone", 0, id, 0, serLive)}, ok |-> TRUE]
    ELSE LET b1 == b \cup {Cell(out, "tagSome", 0, id, 0, serLive)}
         IN  IF ~live
             THEN [buf |-> b1, ok |-> FALSE]
             ELSE [buf |-> ArcResolve(b1, p + PayloadOffset, resolver,
                                      out + PayloadOffset, id),
                   ok |-> TRUE]

Live(id) == id # NullId /\ srcLive[id]

\* the pointer fields archived so far: every weak field wrote a tag, every
\* strong field a relative pointer that is not the payload of a weak one
Resolved(b) ==
    {c \in b : \/ c.t \in {"tagNone", "tagSome"}
               \/ /\ c.t = "rc"
                  /\ ~\E w \in b : w.t = "tagSome" /\ w.at + PayloadOffset = c.at}

Fields == Len(pending) + Cardinality(Resolved(buf))

\* ---- actions of the archiving operation ---------------------------------

\* a strong pointer field is serialized
SerializeStrong ==
    /\ phase = "ser"
    /\ Fields < MaxFields
    /\ \E id \in Ids :
        /\ srcLive[id]
        /\ LET s == Ser(shared_resolvers, buf, pos)
               r == IF Flavor(id) = "rc" THEN RcSerialize(s, id) ELSE ArcSerialize(s, id)
           IN  /\ shared_resolvers' = r.s.reg
               /\ buf' = r.s.buf
               /\ pos' = r.s.pos
               /\ pending' = Append(pending, [ptr |-> "strong", id |-> id,
                                              resolver |-> r.resolver, serLive |-> TRUE])
               /\ last' = [NoLast EXCEPT !.op = "serStrong", !.id = id, !.live = TRUE,
                              !.some = r.resolver.some, !.pos = r.resolver.pos,
                              !.first = (id \notin DOMAIN shared_resolvers),
                              !.wrote = (r.s.buf # buf),
                              !.regSame = (r.s.reg = shared_resolvers)]
    /\ UNCHANGED <<phase, srcLive, deVars>>

\* a weak pointer field is serialized
SerializeWeak ==
    /\ phase = "ser"
    /\ Fields < MaxFields
    /\ \E id \in Ids \cup {NullId} :
        LET s == Ser(shared_resolvers, buf, pos)
            r == IF Flavor(id) = "rc" THEN RcWeakSerialize(s, id, Live(id))
                                      ELSE ArcWeakSerialize(s, id, Live(id))
        IN  /\ shared_resolvers' = r.s.reg
            /\ buf' = r.s.buf
            /\ pos' = r.s.pos
            /\ pending' = Append(pending, [ptr |-> "weak", id |-> id,
                                           resolver |-> r.resolver, serLive |-> Live(id)])
            /\ last' = [NoLast EXCEPT !.op = "serWeak", !.id = id, !.live = Live(id),
                           !.some = r.resolver.some, !.pos = r.resolver.pos,
                           !.first = (id \notin DOMAIN shared_resolvers),
                           !.wrote = (r.s.buf # buf),
                           !.regSame = (r.s.reg = shared_resolvers)]
    /\ UNCHANGED <<phase, srcLive, deVars>>

\* the oldest serialized field is resolved at the serializer's position
Resolve ==
    /\ phase = "ser"
    /\ pending # <<>>
    /\ LET f == Head(pending)
       IN  IF f.ptr = "strong"
           THEN /\ buf' = IF Flavor(f.id) = "rc"
                          THEN RcResolve(buf, pos, f.resolver, pos, f.id)
                          ELSE ArcResolve(buf, pos, f.resolver, pos, f.id)
                /\ pos' = pos + RcSize
                /\ phase' = phase
                /\ last' = [NoLast EXCEPT !.op = "resStrong", !.id = f.id,
                               !.some = TRUE, !.pos = f.resolver.pos, !.key = pos]
           ELSE LET r == IF Flavor(f.id) = "rc"
                         THEN RcWeakResolve(buf, pos, f.resolver, pos, f.id,
                                            Live(f.id), f.serLive)
                         ELSE ArcWeakResolve(buf, pos, f.resolver, pos, f.id,
                                             Live(f.id), f.serLive)
                IN  /\ buf' = r.buf
                    /\ pos' = pos + WeakSize
                    /\ phase' = IF r.ok THEN phase ELSE "panicked"
                    /\ last' = [NoLast EXCEPT !.op = "resWeak", !.id = f.id,
                                   !.live = Live(f.id), !.some = f.resolver.some,
                                   !.pos = f.resolver.pos, !.ok = r.ok, !.key = pos]
    /\ pending' = Tail(pending)
    /\ UNCHANGED <<srcLive, shared_resolvers, deVars>>

\* the last strong handle of a source pointee is dropped (by the owner of the
\* graph through interior mutability, or by another thread); a strong field
\* waiting to be resolved is itself a strong handle, so none is pending
DropPointee ==
    /\ phase = "ser"
    /\ \E id \in Ids :
        /\ srcLive[id]
        /\ \A i \in 1..Len(pending) : ~(pending[i].ptr = "strong" /\ pending[i].id = id)
        /\ srcLive' = [srcLive EXCEPT ![id] = FALSE]
        /\ last' = [NoLast EXCEPT !.op = "dropPointee", !.id = id]
    /\ UNCHANGED <<phase, serVars, deVars>>

\* ---- reference counting of a reconstructed allocation -------------------
\* strong / weak: the handles that own it; live: the pointee was not dropped;
\* frees: how often its memory was released; id and everStrong are history.

\* the closure |ptr| Rc::from(Box::from_raw(ptr)): a new allocation, one owner
RcFromBox(val, id) ==
    [strong |-> 1, weak |-> 0, val |-> val, live |-> TRUE, frees |-> 0,
     id |-> id, everStrong |-> FALSE]

\* the closure |ptr| Arc::from(Box::from_raw(ptr))
ArcFromBox(val, id) ==
    [strong |-> 1, weak |-> 0, val |-> val, live |-> TRUE, frees |-> 0,
     id |-> id, everStrong |-> FALSE]

\* Rc::clone / Arc::clone
Clone(al) == [al EXCEPT !.strong = @ + 1]

\* Rc::downgrade / Arc::downgrade
Downgrade(al) == [al EXCEPT !.weak = @ + 1]

\* drop of a strong handle; dropping one the allocation no longer counts
\* releases the memory once more
DropStrong(al) ==
    IF al.strong = 1
    THEN [al EXCEPT !.strong = 0, !.live = FALSE,
                    !.frees = IF al.weak = 0 THEN @ + 1 ELSE @]
    ELSE IF al.strong <= 0
         THEN [al EXCEPT !.frees = @ + 1]
         ELSE [al EXCEPT !.strong = @ - 1]

\* drop of a weak handle
DropWeak(al) ==
    [al EXCEPT !.weak = @ - 1,
               !.frees = IF al.strong = 0 /\ al.weak = 1 THEN @ + 1 ELSE @]

\* ---- the deserializer ----------------------------------------------------

De(reg, as) == [reg |-> reg, allocs |-> as]

\* the cell at an address of the archive; reading where nothing was written
\* yields junk
CellAt(ar, a) ==
    IF \E c \in ar : c.at = a
    THEN CHOOSE c \in ar : c.at = a
    ELSE Cell(a, "junk", 0, NullId, 0 - 1, FALSE)

\* RelPtr::as_ptr: own address plus stored offset
Deref(ar, at) == at + CellAt(ar, at).off

\* SharedDeserializer::deserialize_shared: the allocation registered for the
\* archived pointee at key; on the first sighting the pointee is constructed
\* (which may fail), made shared by the closure and registered.
DeserializeShared(d, key, fresh, fail) ==
    IF key \in DOMAIN d.reg
    THEN [d |-> d, ok |-> TRUE, raw |-> d.reg[key]]
    ELSE IF fail
         THEN [d |-> d, ok |-> FALSE, raw |-> 0]
         ELSE [d |-> De(d.reg @@ (key :> (Len(d.allocs) + 1)), Append(d.allocs, fresh)),
               ok |-> TRUE, raw |-> Len(d.allocs) + 1]

\* A deserialize whose clone is dropped instead of forgotten.
RcDeserialize_NoForget(d, ar, at, fail) ==
    LET key == Deref(ar, at)
        r == DeserializeShared(d, key, RcFromBox(CellAt(ar, key).val, CellAt(ar, key).id), fail)
    IN  IF ~r.ok
        THEN [d |-> r.d, ok |-> FALSE, h |-> 0, key |-> key]
        ELSE [d |-> r.d, ok |-> TRUE, h |-> r.raw, key |-> key]

\* A deserialize that builds its own allocation instead of using the
\* registered one.
RcDeserialize_Fresh(d, ar, at, fail) ==
    LET key == Deref(ar, at)
        r == DeserializeShared(d, key, RcFromBox(CellAt(ar, key).val, CellAt(ar, key).id), fail)
    IN  IF ~r.ok
        THEN [d |-> r.d, ok |-> FALSE, h |-> 0, key |-> key]
        ELSE [d |-> De(r.d.reg,
                       Append(r.d.allocs, RcFromBox(CellAt(ar, key).val, CellAt(ar, key).id))),
              ok |-> TRUE, h |-> Len(r.d.allocs) + 1, key |-> key]

\* A deserialize that answers a failed construction with an allocation of
\* its own instead of the error.
RcDeserialize_SwallowError(d, ar, at, fail) ==
    LET key == Deref(ar, at)
        r == DeserializeShared(d, key, RcFromBox(CellAt(ar, key).val, CellAt(ar, key).id), fail)
    IN  IF ~r.ok
        THEN [d |-> De(r.d.reg, Append(r.d.allocs, RcFromBox(0, NullId))),
              ok |-> TRUE, h |-> Len(r.d.allocs) + 1, key |-> key]
        ELSE [d |-> De(r.d.reg, [r.d.allocs EXCEPT ![r.raw] = Clone(@)]),
              ok |-> TRUE, h |-> r.raw, key |-> key]

\* Deserialize<rc::Rc<T>, D>::deserialize for the ArchivedRc at address at:
\* the error is passed on; otherwise the handle is rebuilt from the raw
\* pointer and one more strong reference is counted for it (clone, forget)
RcDeserialize(d, ar, at, fail) ==
    LET key == Deref(ar, at)
        r == DeserializeShared(d, key, RcFromBox(CellAt(ar, key).val, CellAt(ar, key).id), fail)
    IN  IF ~r.ok
        THEN [d |-> r.d, ok |-> FALSE, h |-> 0, key |-> key]
        ELSE [d |-> De(r.d.reg, [r.d.allocs EXCEPT ![r.raw] = Clone(@)]),
              ok |-> TRUE, h |-> r.raw, key |-> key]

\* Deserialize<sync::Arc<T>, D>::deserialize
ArcDeserialize(d, ar, at, fail) ==
    LET key == Deref(ar, at)
        r == DeserializeShared(d, key, ArcFromBox(CellAt(ar, key).val, CellAt(ar, key).id), fail)
    IN  IF ~r.ok
        THEN [d |-> r.d, ok |-> FALSE, h |-> 0, key |-> key]
        ELSE [d |-> De(r.d.reg, [r.d.allocs EXCEPT ![r.raw] = Clone(@)]),
              ok |-> TRUE, h |-> r.raw, key |-> key]

\* ArchivedRcWeak::upgrade: the address of the payload, or -1 for None
ArchivedRcWeakUpgrade(ar, at) ==
    IF CellAt(ar, at).t = "tagSome" THEN at + PayloadOffset ELSE 0 - 1

\* ArchivedArcWeak::upgrade
ArchivedArcWeakUpgrade(ar, at) ==
    IF CellAt(ar, at).t = "tagSome" THEN at + PayloadOffset ELSE 0 - 1

\* Deserialize<rc::Weak<T>, D>::deserialize for the ArchivedRcWeak at address
\* at: None gives Weak::new() (h = 0); Some deserializes the payload,
\* downgrades the strong handle and drops it
RcWeakDeserialize(d, ar, at, fail) ==
    IF CellAt(ar, at).t # "tagSome"
    THEN [d |-> d, ok |-> TRUE, h |-> 0, key |-> 0]
    ELSE LET r == RcDeserialize(d, ar, at + PayloadOffset, fail)
         IN  IF ~r.ok
             THEN r
             ELSE [r EXCEPT !.d.allocs[r.h] = DropStrong(Downgrade(@))]

\* Deserialize<sync::Weak<T>, D>::deserialize
ArcWeakDeserialize(d, ar, at, fail) ==
    IF CellAt(ar, at).t # "tagSome"
    THEN [d |-> d, ok |-> TRUE, h |-> 0, key |-> 0]
    ELSE LET r == ArcDeserialize(d, ar, at + PayloadOffset, fail)
         IN  IF ~r.ok
             THEN r
             ELSE [r EXCEPT !.d.allocs[r.h] = DropStrong(Downgrade(@))]

Handle(kind, alloc, id, origin, serLive) ==
    [kind |-> kind, alloc |-> alloc, id |-> id, origin |-> origin, serLive |-> serLive]

One(h) == SetToBag({h})

\* Weak::upgrade of a live handle succeeds while a strong reference exists
CanUpgrade(h) == h.alloc # 0 /\ allocs[h.alloc].strong > 0

Registered(a) == \E k \in DOMAIN shared_pointers : shared_pointers[k] = a

\* ---- actions of reading the archive back ---------------------------------

\* the archiving operation ends: the serializer and the source graph are
\* dropped and the archive is copied to a base address
Finalize ==
    /\ phase = "ser"
    /\ pending = <<>>
    /\ buf # {}
    /\ archive' = {[c EXCEPT !.at = BaseShift + c.at] : c \in buf}
    /\ phase' = "de"
    /\ srcLive' = [id \in Ids |-> FALSE]
    /\ shared_resolvers' = Empty
    /\ buf' = {}
    /\ pos' = 0
    /\ last' = NoLast
    /\ UNCHANGED <<pending, shared_pointers, allocs, handles, orphaned>>

\* an archived strong pointer is deserialized; fail: the construction of the
\* pointee fails, which can only happen on a first sighting
DeserializeStrong ==
    /\ phase = "de"
    /\ BagCardinality(handles) < MaxHandles
    /\ \E c \in {x \in archive : x.t = "rc"}, fail \in BOOLEAN :
        /\ fail => Deref(archive, c.at) \notin DOMAIN shared_pointers
        /\ LET d == De(shared_pointers, allocs)
               r == IF Flavor(c.id) = "rc" THEN RcDeserialize(d, archive, c.at, fail)
                                           ELSE ArcDeserialize(d, archive, c.at, fail)
           IN  /\ shared_pointers' = r.d.reg
               /\ allocs' = IF r.ok
                            THEN [r.d.allocs EXCEPT ![r.h].everStrong = TRUE]
                            ELSE r.d.allocs
               /\ handles' = IF r.ok
                             THEN handles (+) One(Handle("strong", r.h, c.id, "de", TRUE))
                             ELSE handles
               /\ last' = IF r.key \in DOMAIN shared_pointers
                           THEN [NoLast EXCEPT !.op = "deStrong"]
                           ELSE [NoLast EXCEPT !.op = "deStrong", !.id = c.id, !.ok = r.ok,
                                    !.key = r.key, !.h = r.h, !.same = (r.d = d),
                                    !.failed = fail,
                                    !.retry = last.failed /\ last.key = r.key,
                                    !.first = Len(r.d.allocs) = Len(allocs) + 1]
    /\ UNCHANGED <<phase, srcLive, serVars, archive, orphaned>>

\* an archived weak pointer is deserialized
DeserializeWeak ==
    /\ phase = "de"
    /\ BagCardinality(handles) < MaxHandles
    /\ \E c \in {x \in archive : x.t \in {"tagNone", "tagSome"}}, fail \in BOOLEAN :
        /\ fail => /\ c.t = "tagSome"
                   /\ Deref(archive, c.at + PayloadOffset) \notin DOMAIN shared_pointers
        /\ LET d == De(shared_pointers, allocs)
               r == IF Flavor(c.id) = "rc" THEN RcWeakDeserialize(d, archive, c.at, fail)
                                           ELSE ArcWeakDeserialize(d, archive, c.at, fail)
           IN  /\ shared_pointers' = r.d.reg
               /\ allocs' = r.d.allocs
               /\ handles' = IF r.ok
                             THEN handles (+) One(Handle("weak", r.h, c.id, "de", c.serLive))
                             ELSE handles
               /\ last' = IF c.t = "tagSome" /\ r.key \in DOMAIN shared_pointers
                           THEN [NoLast EXCEPT !.op = "deWeak", !.some = TRUE]
                           ELSE [NoLast EXCEPT !.op = "deWeak", !.id = c.id, !.ok = r.ok,
                                    !.key = r.key, !.h = r.h, !.same = (r.d = d),
                                    !.some = (c.t = "tagSome"), !.live = c.serLive,
                                    !.failed = fail /\ c.t = "tagSome",
                                    !.retry = /\ last.failed
                                              /\ c.t = "tagSome"
                                              /\ last.key = r.key,
                                    !.first = Len(r.d.allocs) = Len(allocs) + 1]
    /\ UNCHANGED <<phase, srcLive, serVars, archive, orphaned>>

\* the caller upgrades a weak handle it holds
UpgradeHandle ==
    /\ phase \in {"de", "closed"}
    /\ BagCardinality(handles) < MaxHandles
    /\ \E h \in BagToSet(handles) :
        /\ h.kind = "weak"
        /\ CanUpgrade(h)
        /\ allocs' = [allocs EXCEPT ![h.alloc] = [Clone(@) EXCEPT !.everStrong = TRUE]]
        /\ handles' = handles (+) One(Handle("strong", h.alloc, h.id, "upgrade", TRUE))
    /\ last' = NoLast
    /\ UNCHANGED <<phase, srcLive, serVars, archive, shared_pointers, orphaned>>

\* the caller drops a handle it holds
DropHandle ==
    /\ phase \in {"de", "closed"}
    /\ \E h \in BagToSet(handles) :
        /\ handles' = handles (-) One(h)
        /\ allocs' = IF h.alloc = 0
                     THEN allocs
                     ELSE [allocs EXCEPT ![h.alloc] =
                              IF h.kind = "strong" THEN DropStrong(@) ELSE DropWeak(@)]
        /\ orphaned' = IF h.kind = "weak" /\ h.alloc # 0 /\ ~allocs[h.alloc].everStrong
                       THEN orphaned \cup {h.alloc}
                       ELSE orphaned
    /\ last' = NoLast
    /\ UNCHANGED <<phase, srcLive, serVars, archive, shared_pointers>>

\* the deserializer is dropped, and with it the shared pointers it registered
DropDeserializer ==
    /\ phase = "de"
    /\ phase' = "closed"
    /\ allocs' = [a \in DOMAIN allocs |->
                    IF Registered(a) THEN DropStrong(allocs[a]) ELSE allocs[a]]
    /\ shared_pointers' = Empty
    /\ last' = NoLast
    /\ UNCHANGED <<srcLive, serVars, archive, handles, orphaned>>

\* ---- what the caller holds ------------------------------------------------

Held(a, kinds, origins) ==
    BagCardinality([h \in {x \in BagToSet(handles) :
                              x.alloc = a /\ x.kind \in kinds /\ x.origin \in origins}
                    |-> handles[h]])

StrongHeld(a) == Held(a, {"strong"}, {"de", "upgrade"})
DeStrongHeld(a) == Held(a, {"strong"}, {"de"})
AnyHeld(a) == Held(a, {"strong", "weak"}, {"de", "upgrade"})

Shifted(b, base) == {[c EXCEPT !.at = base + c.at] : c \in b}

Pointers(b, id) == {c \in b : c.t = "rc" /\ c.id = id}
Pointees(b, id) == {c \in b : c.t = "pointee" /\ c.id = id}

\* ---- the claims -----------------------------------------------------------

\* C1: within one archiving operation a pointee identity is archived at most
\* once: the first serialize call for it writes the pointee and records its
\* position, every later serialize call (strong, or weak with a live pointee)
\* writes nothing and returns a resolver holding that recorded position.
C1_ArchivedAtMostOnce ==
    /\ \A id \in Ids : Cardinality(Pointees(buf \cup archive, id)) <= 1
    /\ \A i \in 1..Len(pending) :
          pending[i].resolver.some =>
             /\ pending[i].id \in DOMAIN shared_resolvers
             /\ pending[i].resolver.pos = shared_resolvers[pending[i].id]
             /\ CellAt(buf, pending[i].resolver.pos) \in Pointees(buf, pending[i].id)
    /\ (last.op \in {"serStrong", "serWeak"} /\ last.some) =>
          /\ last.wrote <=> last.first
          /\ last.id \in DOMAIN shared_resolvers
          /\ last.pos = shared_resolvers[last.id]

\* two pointers to one pointee were archived, with one copy of the pointee
C1_Witness ==
    \E id \in Ids :
        /\ Cardinality(Pointers(buf, id)) >= 2
        /\ Cardinality(Pointees(buf, id)) = 1
        /\ last.op \in {"serStrong", "serWeak"} => ~last.wrote

\* C2: handles deserialized with one deserializer from pointers to the same
\* pointee identity alias one allocation: the pointee is constructed once, on
\* the first sighting, and every later deserialize reuses the registered
\* allocation.
C2_SameIdentitySameAllocation ==
    /\ \A h1, h2 \in BagToSet(handles) :
          (h1.alloc # 0 /\ h2.alloc # 0 /\ h1.id = h2.id) => h1.alloc = h2.alloc
    /\ \A a1, a2 \in DOMAIN allocs :
          allocs[a1].id = allocs[a2].id => a1 = a2
    /\ phase = "de" =>
          \A h \in BagToSet(handles) :
              h.alloc # 0 =>
                 \E k \in DOMAIN shared_pointers :
                     /\ shared_pointers[k] = h.alloc
                     /\ CellAt(archive, k) \in Pointees(archive, h.id)

\* a strong and a weak handle from the same identity are held together
C2_Witness ==
    \E h1, h2 \in BagToSet(handles) :
        /\ h1.kind = "strong" /\ h1.origin = "de"
        /\ h2.kind = "weak" /\ h2.origin = "de"
        /\ h1.id = h2.id
        /\ h1.alloc = h2.alloc /\ h1.alloc # 0

\* C3 as stated: the strong count of a reconstructed allocation equals the
\* number of deserialized strong handles the caller currently holds.
C3_CountIsHeldHandles ==
    \A a \in DOMAIN allocs : allocs[a].strong = DeStrongHeld(a)

\* C3 amended: the strong count equals the number of strong handles the
\* caller currently holds (deserialized, or upgraded from a deserialized weak
\* handle) plus the one standing reference of the registry, which lasts until
\* the deserializer is dropped.
C3_CountIsHeldPlusRegistry ==
    \A a \in DOMAIN allocs :
        allocs[a].strong = StrongHeld(a) + (IF Registered(a) THEN 1 ELSE 0)

\* after the deserializer is gone, one of the strong handles is still held
\* next to a weak one
C3_Witness ==
    /\ phase = "closed"
    /\ \E a \in DOMAIN allocs :
          /\ allocs[a].strong = 1
          /\ DeStrongHeld(a) = 1
          /\ Held(a, {"weak"}, {"de"}) = 1

\* C4 as stated: the allocation is freed exactly once, exactly when the last
\* handle returned to the caller (or upgraded from one) is dropped.
C4_FreedWithLastHandle ==
    \A a \in DOMAIN allocs :
        /\ allocs[a].frees <= 1
        /\ allocs[a].frees = 1 <=> AnyHeld(a) = 0

\* C4 amended: the allocation is freed exactly once, exactly when the last of
\* its owners is gone, the owners being the handles returned to the caller,
\* the handles upgraded from them and the registry of the deserializer; it is
\* never freed while one of them is live.
C4_FreedWithLastOwner ==
    \A a \in DOMAIN allocs :
        /\ allocs[a].frees <= 1
        /\ allocs[a].frees = 1 <=> (AnyHeld(a) = 0 /\ ~Registered(a))

\* an allocation that had weak and strong handles was freed
C4_Witness ==
    \E a \in orphaned : allocs[a].everStrong /\ allocs[a].frees = 1

\* C5: resolve of a weak pointer uses the resolver alone: with a Some
\* resolver and the pointee dropped since serialize, it completes and writes
\* the Some tag and the payload.
C5_WeakResolveUsesResolverOnly ==
    (last.op = "resWeak" /\ last.some /\ ~last.live) =>
        /\ last.ok
        /\ phase # "panicked"
        /\ CellAt(buf, last.key).t = "tagSome"
        /\ CellAt(buf, last.key + PayloadOffset).t = "rc"
        /\ Deref(buf, last.key + PayloadOffset) = last.pos

\* C6: a weak pointer whose pointee is gone (or that never had one)
\* serializes to None without asking the registry, resolves to the None tag,
\* reads back with upgrade giving nothing, and deserializes, without
\* touching the registry, to a weak handle that cannot be upgraded.
C6_DeadWeakRoundTrip ==
    /\ (last.op = "serWeak" /\ ~last.live) =>
          ~last.some /\ last.regSame /\ ~last.wrote
    /\ \A c \in buf \cup archive :
          (c.t \in {"tagNone", "tagSome"} /\ ~c.serLive) =>
             /\ c.t = "tagNone"
             /\ IF Flavor(c.id) = "rc"
                THEN ArchivedRcWeakUpgrade(buf \cup archive, c.at) = 0 - 1
                ELSE ArchivedArcWeakUpgrade(buf \cup archive, c.at) = 0 - 1
    /\ (last.op = "deWeak" /\ ~last.live) =>
          last.ok /\ last.same /\ last.h = 0
    /\ \A h \in BagToSet(handles) :
          (h.kind = "weak" /\ ~h.serLive) => ~CanUpgrade(h)

\* a weak handle read back from a dead weak pointer is held
C6_Witness ==
    /\ last.op = "deWeak" /\ ~last.live
    /\ \E h \in BagToSet(handles) : h.kind = "weak" /\ ~h.serLive

\* C7 as stated: the weak handle deserialized from a weak pointer whose
\* pointee was live upgrades to the original value.
C7_LiveWeakUpgrades ==
    \A h \in BagToSet(handles) :
        (h.kind = "weak" /\ h.serLive) =>
            /\ CanUpgrade(h)
            /\ allocs[h.alloc].live
            /\ allocs[h.alloc].val = SrcVal(h.id)

\* C7 amended: a weak pointer whose pointee is live serializes to Some, and
\* the weak handle deserialized from it upgrades to the original value for
\* as long as the deserializer is alive or the caller holds a strong handle
\* to the allocation, and no longer.
C7_LiveWeakUpgradesWhileOwned ==
    /\ (last.op = "serWeak" /\ last.live) => last.some
    /\ \A c \in buf \cup archive :
          (c.t \in {"tagNone", "tagSome"} /\ c.serLive) => c.t = "tagSome"
    /\ \A h \in BagToSet(handles) :
          (h.kind = "weak" /\ h.serLive) =>
              /\ h.alloc # 0
              /\ allocs[h.alloc].val = SrcVal(h.id)
              /\ CanUpgrade(h) <=> (Registered(h.alloc) \/ StrongHeld(h.alloc) > 0)
              /\ CanUpgrade(h) => allocs[h.alloc].live

\* a weak handle is upgradable though no strong handle to it ever existed
C7_Witness ==
    \E h \in BagToSet(handles) :
        /\ h.kind = "weak" /\ h.serLive
        /\ CanUpgrade(h)
        /\ ~allocs[h.alloc].everStrong
        /\ \A c \in archive : c.t = "rc" => CellAt(archive, c.at - PayloadOffset).t = "tagSome"

\* C8: when the construction of a first-sighted pointee fails, deserialize
\* returns the error and no handle, the registry has no entry for the
\* identity (so that the next deserialize is a first sighting again) and the
\* allocations and their counts are as before.
C8_FailedFirstSighting ==
    /\ last.failed =>
          /\ ~last.ok
          /\ last.h = 0
          /\ last.same
          /\ last.key \notin DOMAIN shared_pointers
    /\ (last.retry /\ ~last.failed) =>
          /\ last.ok
          /\ last.first
          /\ last.key \in DOMAIN shared_pointers
          /\ shared_pointers[last.key] = Len(allocs)

\* a construction failed while another allocation was held, and succeeded
\* when it was tried again
C8_Witness ==
    /\ last.retry /\ last.ok
    /\ \E h \in BagToSet(handles) : h.alloc # 0 /\ h.id # last.id

\* C9: an archived shared pointer holds an offset relative to its own
\* position, so that at every base address of the archive it leads to the
\* archived pointee of its identity.
C9_RelocationInvariant ==
    \A base \in Bases :
        LET m == Shifted(buf \cup archive, base)
        IN  \A c \in m :
                c.t = "rc" => CellAt(m, Deref(m, c.at)) \in Pointees(m, c.id)

\* a strong pointer and the payload of a weak pointer are in the archive
C9_Witness ==
    /\ \E c \in archive : c.t = "tagSome"
    /\ \E c \in archive : c.t = "rc" /\ CellAt(archive, c.at - PayloadOffset).t # "tagSome"

\* C10: an allocation first reconstructed for a weak pointer, whose weak
\* handle was dropped before any strong handle existed, is kept by the
\* registry: it is not freed, and a later strong deserialize of the identity
\* returns a handle to this allocation with the pointee intact.
C10_WeakFirstKeepsAllocation ==
    \A a \in orphaned :
        /\ Registered(a) =>
              allocs[a].live /\ allocs[a].frees = 0 /\ allocs[a].strong >= 1
        /\ \A h \in BagToSet(handles) :
              (h.kind = "strong" /\ h.id = allocs[a].id) =>
                  /\ h.alloc = a
                  /\ allocs[a].live
                  /\ allocs[a].val = SrcVal(h.id)

\* after the weak handle was dropped, a strong one was deserialized
C10_Witness ==
    \E a \in orphaned :
        /\ Registered(a)
        /\ \E h \in BagToSet(handles) :
              h.kind = "strong" /\ h.origin = "de" /\ h.alloc = a


Init ==
    /\ phase = "ser"
    /\ srcLive = [id \in Ids |-> TRUE]
    /\ shared_resolvers = Empty
    /\ buf = {}
    /\ pos = 0
    /\ pending = <<>>
    /\ archive = {}
    /\ shared_pointers = Empty
    /\ allocs = <<>>
    /\ handles = EmptyBag
    /\ orphaned = {}
    /\ last = NoLast

Next ==
    \/ SerializeStrong
    \/ SerializeWeak
    \/ Resolve
    \/ DropPointee
    \/ Finalize
    \/ DeserializeStrong
    \/ DeserializeWeak
    \/ UpgradeHandle
    \/ DropHandle
    \/ DropDeserializer

Spec == Init /\ [][Next]_vars
====
